---- MODULE Spec2Model ----
(***************************************************************************)
(* Model of empanada-napari's finetuning driver (finetune.py) and of the    *)
(* 2D parameter-testing widget (_slice_inference.py).                       *)
(*                                                                         *)
(* Three specifications share the module:                                  *)
(*   SpecOpt    configure_optimizer applied to bounded module trees         *)
(*   Spec       main / main_worker: validation, freeze policy, training     *)
(*   SpecWidget the 'Test Parameters' widget and its background workers     *)
(***************************************************************************)
EXTENDS Integers, Sequences, FiniteSets, TLC

VARIABLES
    call,           \* configure_optimizer's arguments (SpecOpt)
    ret             \* configure_optimizer's outcome

VARIABLES
    pc,             \* where main / main_worker stands
    error,          \* the exception that ended the run, "" while there is none
    config,         \* the configuration dict, as the driver reads and rewrites it
    fs,             \* the file system: the model directory, the checkpoint file
    model,          \* the loaded module tree, <<>> before it is loaded
    requires_grad,  \* parameter path -> trainable flag
    flags_loaded,   \* requires_grad as the model came from the checkpoint (history)
    weights,        \* how many epochs of updates the model's weights have taken
    num_trainable,  \* the count reported at line 89
    dataset_augs,   \* the augmentation objects built so far
    tfs,            \* the composed transform
    train_dataset, train_loader, criterion,
    optimizer, scheduler, scaler,
    epoch,          \* the training loop's variable
    trained,        \* the epochs train() has run, in order
    saves           \* the epoch numbers of the bundles save_checkpoint wrote, in order

VARIABLES
    widget,         \* the attributes set on the widget function object
    engines,        \* every TestEngine constructed so far; an engine is its index
    workers,        \* the test_model workers created so far, in order
    layers,         \* the 'Test Seg' label layers added to the viewer
    clicks,         \* 'Test Parameters' presses so far
    press,          \* the latest press: its model config, use_gpu and how it ended (history)
    maxThreadCount  \* threads of the pool that runs the workers

optVars == <<call, ret>>

widVars == <<widget, engines, workers, layers, clicks, press, maxThreadCount>>

drvVars == <<pc, error, config, fs, model, requires_grad, flags_loaded, weights, num_trainable,
             dataset_augs, tfs, train_dataset, train_loader, criterion, optimizer,
             scheduler, scaler, epoch, trained, saves>>

vars == <<optVars, drvVars, widVars>>

\* Python's None, and any object not built yet
None == [kind |-> "None"]

(***************************************************************************)
(* Python str operations, on TLA+ strings.                                 *)
(***************************************************************************)

\* The characters that occur in module and parameter paths, in ascending
\* code-point order ('.' 46 < digits 48..57 < '_' 95 < 'a'..'z' 97..122).
Alphabet == ".0123456789_abcdefghijklmnopqrstuvwxyz"

Ord(c) == CHOOSE i \in 1..Len(Alphabet) : SubSeq(Alphabet, i, i) = c

\* sub in s
Contains(sub, s) ==
    \E i \in 1..(Len(s) - Len(sub) + 1) : SubSeq(s, i, i + Len(sub) - 1) = sub

\* s == suf: the variant that takes only the exact name
EndsWithExact(s, suf) == s = suf

\* s.endswith(suf)
EndsWith(s, suf) ==
    /\ Len(suf) <= Len(s)
    /\ SubSeq(s, Len(s) - Len(suf) + 1, Len(s)) = suf

RECURSIVE FirstDiff(_, _, _)
\* first index at which a and b differ, or run past the shorter one
FirstDiff(a, b, i) ==
    IF i > Len(a) \/ i > Len(b) THEN i
    ELSE IF SubSeq(a, i, i) # SubSeq(b, i, i) THEN i
    ELSE FirstDiff(a, b, i + 1)

\* a < b for Python str: lexicographic by code point, a proper prefix first
StrLess(a, b) ==
    LET i == FirstDiff(a, b, 1) IN
    IF i > Len(a) THEN i <= Len(b)
    ELSE IF i > Len(b) THEN FALSE
    ELSE Ord(SubSeq(a, i, i)) < Ord(SubSeq(b, i, i))

RECURSIVE Insert(_, _)
\* x inserted into the ascending sequence s
Insert(x, s) ==
    IF s = <<>> THEN <<x>>
    ELSE IF StrLess(x, Head(s)) THEN <<x>> \o s
    ELSE <<Head(s)>> \o Insert(x, Tail(s))

RECURSIVE SetToList(_)
\* list(S): the elements of a set in some order
SetToList(S) ==
    IF S = {} THEN <<>>
    ELSE LET x == CHOOSE y \in S : TRUE IN <<x>> \o SetToList(S \ {x})

RECURSIVE SortedSeq(_)
SortedSeq(s) == IF s = <<>> THEN <<>> ELSE Insert(Head(s), SortedSeq(Tail(s)))

\* sorted(list(S), reverse=True): the variant with the order wrong
unsorted(S) ==
    LET s == SortedSeq(SetToList(S)) IN [i \in 1..Len(s) |-> s[Len(s) + 1 - i]]

\* sorted(list(S))
sorted(S) == SortedSeq(SetToList(S))

Range(s) == {s[i] : i \in 1..Len(s)}

(***************************************************************************)
(* torch.nn.Module trees.  A model is the sequence named_modules() yields   *)
(* (pre-order): each module has its dotted path mn ("" for the root), its  *)
(* class, and the names of the parameters it owns itself, in registration  *)
(* order.  A parameter is identified by its full path.                     *)
(***************************************************************************)

named_modules(tree) == tree

\* '%s.%s' % (mn, pn) if mn else pn
full_name(mn, pn) == IF mn # "" THEN mn \o "." \o pn ELSE pn

RECURSIVE Flatten(_)
Flatten(ss) == IF ss = <<>> THEN <<>> ELSE Head(ss) \o Flatten(Tail(ss))

\* model.parameters(): every parameter, in module then registration order
parameters(tree) ==
    Flatten([i \in 1..Len(tree) |->
        [j \in 1..Len(tree[i].params) |->
            full_name(tree[i].mn, tree[i].params[j])]])

\* model.named_parameters(recurse=False): the variant that sees the root's
\* own parameters only
named_parameters_norecurse(tree) ==
    IF tree = <<>> THEN {} ELSE {full_name(tree[1].mn, pn) : pn \in Range(tree[1].params)}

\* the keys of {pn: p for pn, p in model.named_parameters()}
named_parameters(tree) == Range(parameters(tree))

(***************************************************************************)
(* configure_optimizer (finetune.py 187-232).                              *)
(***************************************************************************)

\* the variant whose blacklist holds every normalization class
blacklist_all_norms == {"BatchNorm2d", "GroupNorm"}

\* blacklist = (torch.nn.BatchNorm2d,)
blacklist == {"BatchNorm2d"}

\* isinstance(m, blacklist)
isinstance(m, classes) == m.kind \in classes

\* the branch of lines 210-215 a parameter pn of module m takes
goes_to_no_decay(m, pn) ==
    LET fn == full_name(m.mn, pn) IN
    \/ EndsWith(fn, "bias")
    \/ EndsWith(fn, "weight") /\ isinstance(m, blacklist)

\* (module, parameter name) pairs of the double loop of lines 206-207
loop_pairs(tree) ==
    UNION {{<<i, j>> : j \in 1..Len(named_modules(tree)[i].params)} :
                i \in 1..Len(named_modules(tree))}

no_decay_set(tree) ==
    {full_name(tree[ij[1]].mn, tree[ij[1]].params[ij[2]]) :
        ij \in {x \in loop_pairs(tree) :
                    goes_to_no_decay(tree[x[1]], tree[x[1]].params[x[2]])}}

decay_set(tree) ==
    {full_name(tree[ij[1]].mn, tree[ij[1]].params[ij[2]]) :
        ij \in {x \in loop_pairs(tree) :
                    ~goes_to_no_decay(tree[x[1]], tree[x[1]].params[x[2]])}}

\* a dict with the keys of d and the key k set to v
DictSet(d, k, v) == [x \in DOMAIN d \cup {k} |-> IF x = k THEN v ELSE d[x]]

\* a dict without the key k
DictDel(d, k) == [x \in DOMAIN d \ {k} |-> d[x]]

\* {"params": params, **opt_params}
param_group(params, opt_params) == DictSet(opt_params, "params", params)

\* param_groups[1]['weight_decay'] = 0 left out
no_decay_group_kept(g) == g

\* param_groups[1]['weight_decay'] = 0
no_decay_group(g) == DictSet(g, "weight_decay", 0)

\* torch.optim.Optimizer(params, **defaults): a list of parameters becomes one
\* group; every group takes the defaults for the keys it does not set itself
optim(opt_name, groups, defaults) ==
    [cls |-> opt_name,
     param_groups |->
        [i \in 1..Len(groups) |->
            [k \in DOMAIN groups[i] \cup DOMAIN defaults |->
                IF k \in DOMAIN groups[i] THEN groups[i][k] ELSE defaults[k]]]]

\* the test of lines 196-199 without its second arm
no_weight_decay_absent_only(opt_params) == "weight_decay" \notin DOMAIN opt_params

\* lines 196-199: 'weight_decay' not in opt_params, or opt_params['weight_decay'] == 0
no_weight_decay(opt_params) ==
    IF "weight_decay" \notin DOMAIN opt_params THEN TRUE
    ELSE opt_params["weight_decay"] = 0

configure_optimizer(tree, opt_name, opt_params) ==
    IF no_weight_decay(opt_params)
    THEN [status |-> "returned", decay |-> {}, no_decay |-> {}, partitioned |-> FALSE,
          optimizer |-> optim(opt_name, <<[params |-> parameters(tree)]>>, opt_params)]
    ELSE
      LET decay == decay_set(tree)
          no_decay == no_decay_set(tree)
          param_dict == named_parameters(tree)
          inter_params == decay \cap no_decay
          union_params == decay \cup no_decay
          failed(what) == [status |-> what, decay |-> decay, no_decay |-> no_decay,
                           partitioned |-> TRUE, optimizer |-> None]
      IN
      IF Cardinality(inter_params) # 0 THEN failed("AssertionError")
      ELSE IF Cardinality(param_dict \ union_params) # 0 THEN failed("AssertionError")
      ELSE IF ~(union_params \subseteq param_dict) THEN failed("KeyError")
      ELSE
        LET decay_params == sorted(decay)
            no_decay_params == sorted(no_decay)
            param_groups == <<param_group(decay_params, opt_params),
                              no_decay_group(param_group(no_decay_params, opt_params))>>
        IN [status |-> "returned", decay |-> decay, no_decay |-> no_decay,
            partitioned |-> TRUE,
            optimizer |-> optim(opt_name, param_groups, opt_params)]

(***************************************************************************)
(* SpecOpt: configure_optimizer on every bounded module tree.              *)
(***************************************************************************)

\* modules per tree
MaxModules == 3

\* module paths in pre-order; every prefix of the list is a tree
ModulePaths == <<"", "encoder", "encoder.bn", "head", "head_bn", "head_bn.proj">>

\* a 2D batch norm, another normalization class, a non-normalization class
Kinds == {"BatchNorm2d", "GroupNorm", "Conv2d"}

NormKinds == {"BatchNorm2d", "GroupNorm"}

\* the parameters a module owns itself
ParamLists ==
    {<<>>, <<"weight">>, <<"weight", "bias">>, <<"rel_bias">>,
     <<"in_proj_weight", "gamma">>}

Trees ==
    UNION {[1..n -> Kinds \X ParamLists] : n \in 1..MaxModules}

\* the module tree of a choice of classes and parameter lists
TreeOf(t) ==
    [i \in 1..Len(t) |-> [mn |-> ModulePaths[i], kind |-> t[i][1], params |-> t[i][2]]]

\* optimizer_params: no weight_decay, weight_decay 0, a nonzero weight_decay
OptParamsSet ==
    {[lr |-> 3], [lr |-> 3, weight_decay |-> 0], [lr |-> 3, weight_decay |-> 1]}

\* before the call there is no outcome
NotCalled == [status |-> "pending"]

\* the driver before main is entered; it stays so under SpecOpt
IdleDriver ==
    /\ pc = "idle" /\ error = "" /\ config = <<>> /\ fs = [model_dir |-> FALSE, checkpoint |-> None]
    /\ model = <<>> /\ requires_grad = <<>> /\ flags_loaded = <<>> /\ weights = 0 /\ num_trainable = 0
    /\ dataset_augs = <<>> /\ tfs = <<>>
    /\ train_dataset = None /\ train_loader = None /\ criterion = None
    /\ optimizer = None /\ scheduler = None /\ scaler = None
    /\ epoch = 0 /\ trained = <<>> /\ saves = <<>>

\* the widget before its first use; it stays so under SpecOpt and Spec
IdleWidget ==
    /\ widget = <<>> /\ engines = <<>> /\ workers = <<>> /\ layers = <<>>
    /\ clicks = 0 /\ press = None /\ maxThreadCount = 1

InitOpt ==
    /\ IdleDriver
    /\ IdleWidget
    /\ call \in {[model |-> TreeOf(t), opt_name |-> "AdamW", opt_params |-> o] :
                    t \in Trees, o \in OptParamsSet}
    /\ ret = NotCalled

\* optimizer = configure_optimizer(model, opt_name, **opt_params)
CallConfigureOptimizer ==
    /\ ret = NotCalled
    /\ ret' = configure_optimizer(call.model, call.opt_name, call.opt_params)
    /\ UNCHANGED <<call, drvVars, widVars>>

NextOpt == CallConfigureOptimizer

SpecOpt == InitOpt /\ [][NextOpt]_vars

(***************************************************************************)
(* Properties of configure_optimizer, checked under SpecOpt.               *)
(***************************************************************************)

Called == ret.status # "pending"

\* weight_decay is present in the optimizer parameters and is not zero
NonzeroWeightDecay ==
    /\ "weight_decay" \in DOMAIN call.opt_params
    /\ call.opt_params["weight_decay"] # 0

\* every parameter path of the tree, read off the tree itself
AllParamPaths(tree) ==
    UNION {{full_name(tree[i].mn, tree[i].params[j]) : j \in 1..Len(tree[i].params)} :
                i \in 1..Len(tree)}

\* pn ends in the letters of suf
HasSuffix(pn, suf) == \E i \in 1..Len(pn) : SubSeq(pn, i, Len(pn)) = suf

\* the (module, leaf name) pairs of the tree handed to configure_optimizer
OwnedParams ==
    {<<m, pn>> \in Range(call.model) \X UNION {Range(l) : l \in ParamLists} :
        pn \in Range(m.params)}

\* C1: with a nonzero weight_decay, configure_optimizer either fails its
\* assertion or yields a decay set and a no-decay set that are disjoint and
\* whose union is the full set of the model's parameter paths.
C1_DecayPartition ==
    (Called /\ NonzeroWeightDecay) =>
        \/ ret.status = "AssertionError"
        \/ /\ ret.status = "returned"
           /\ ret.decay \cap ret.no_decay = {}
           /\ ret.decay \cup ret.no_decay = AllParamPaths(call.model)

\* C1 witness: a tree of several modules is split into two non-empty sets
C1_Witness ==
    /\ Called /\ NonzeroWeightDecay
    /\ ret.status = "returned"
    /\ Len(call.model) >= 2
    /\ ret.decay # {} /\ ret.no_decay # {}
    /\ Cardinality(AllParamPaths(call.model)) >= 3

\* C2 as stated: a parameter named weight goes to no-decay when its module is
\* of any normalization class, and to decay when it is not a normalization
\* module.
C2_AnyNormalization ==
    (Called /\ NonzeroWeightDecay /\ ret.status = "returned") =>
        \A mp \in OwnedParams :
            mp[2] = "weight" =>
                IF mp[1].kind \in NormKinds
                THEN full_name(mp[1].mn, "weight") \in ret.no_decay
                ELSE full_name(mp[1].mn, "weight") \in ret.decay

\* C2 amended: a parameter named weight goes to no-decay exactly when its
\* module is a BatchNorm2d; under every other class, the other normalization
\* classes included, it goes to decay.
C2_BatchNorm2dOnly ==
    (Called /\ NonzeroWeightDecay /\ ret.status = "returned") =>
        \A mp \in OwnedParams :
            mp[2] = "weight" =>
                IF mp[1].kind = "BatchNorm2d"
                THEN /\ full_name(mp[1].mn, "weight") \in ret.no_decay
                     /\ full_name(mp[1].mn, "weight") \notin ret.decay
                ELSE /\ full_name(mp[1].mn, "weight") \in ret.decay
                     /\ full_name(mp[1].mn, "weight") \notin ret.no_decay

\* C2 witness: one tree holds a BatchNorm2d weight in no-decay, a GroupNorm
\* weight and a Conv2d weight in decay
C2_Witness ==
    /\ Called /\ NonzeroWeightDecay /\ ret.status = "returned"
    /\ \E a, b, c \in Range(call.model) :
        /\ a.kind = "BatchNorm2d" /\ full_name(a.mn, "weight") \in ret.no_decay
        /\ b.kind = "GroupNorm" /\ full_name(b.mn, "weight") \in ret.decay
        /\ c.kind = "Conv2d" /\ full_name(c.mn, "weight") \in ret.decay

\* C3 as stated: a parameter whose leaf name is not weight is in no-decay if
\* and only if its leaf name is exactly bias, whatever its module; every other
\* one is in decay.
C3_ExactBias ==
    (Called /\ NonzeroWeightDecay /\ ret.status = "returned") =>
        \A mp \in OwnedParams :
            mp[2] # "weight" =>
                IF mp[2] = "bias"
                THEN full_name(mp[1].mn, mp[2]) \in ret.no_decay
                ELSE full_name(mp[1].mn, mp[2]) \in ret.decay

\* C3 amended: a parameter whose leaf name is not weight is in no-decay if and
\* only if its name ends in bias, or ends in weight and its module is a
\* BatchNorm2d; every other one is in decay.
C3_BiasSuffix ==
    (Called /\ NonzeroWeightDecay /\ ret.status = "returned") =>
        \A mp \in OwnedParams :
            mp[2] # "weight" =>
                IF \/ HasSuffix(mp[2], "bias")
                   \/ HasSuffix(mp[2], "weight") /\ mp[1].kind = "BatchNorm2d"
                THEN /\ full_name(mp[1].mn, mp[2]) \in ret.no_decay
                     /\ full_name(mp[1].mn, mp[2]) \notin ret.decay
                ELSE /\ full_name(mp[1].mn, mp[2]) \in ret.decay
                     /\ full_name(mp[1].mn, mp[2]) \notin ret.no_decay

\* C3 witness: bias and rel_bias under a non-normalization module are both in
\* no-decay while gamma is in decay
C3_Witness ==
    /\ Called /\ NonzeroWeightDecay /\ ret.status = "returned"
    /\ \E a, b, c \in Range(call.model) :
        /\ a.kind = "Conv2d" /\ "bias" \in Range(a.params)
        /\ full_name(a.mn, "bias") \in ret.no_decay
        /\ b.kind = "Conv2d" /\ "rel_bias" \in Range(b.params)
        /\ full_name(b.mn, "rel_bias") \in ret.no_decay
        /\ "gamma" \in Range(c.params) /\ full_name(c.mn, "gamma") \in ret.decay

\* ascending in Python's str order, no path twice
Ascending(s) == \A i, j \in 1..Len(s) : i < j => StrLess(s[i], s[j])

\* C4: with a nonzero weight_decay the optimizer is built from exactly two
\* groups, each listing its parameters in lexicographic order of path: the
\* decay group with the configured weight_decay, the no-decay group with
\* weight_decay 0, every other setting the same in both.
C4_TwoSortedGroups ==
    (Called /\ NonzeroWeightDecay /\ ret.status = "returned") =>
        LET g == ret.optimizer.param_groups IN
        /\ Len(g) = 2
        /\ Ascending(g[1]["params"]) /\ Range(g[1]["params"]) = ret.decay
        /\ Ascending(g[2]["params"]) /\ Range(g[2]["params"]) = ret.no_decay
        /\ g[1]["weight_decay"] = call.opt_params["weight_decay"]
        /\ g[2]["weight_decay"] = 0
        /\ DOMAIN g[1] = DOMAIN call.opt_params \cup {"params"}
        /\ DOMAIN g[2] = DOMAIN g[1]
        /\ \A k \in DOMAIN call.opt_params \ {"weight_decay"} :
                g[1][k] = call.opt_params[k] /\ g[2][k] = call.opt_params[k]

\* C4 witness: both groups hold at least two parameters
C4_Witness ==
    /\ Called /\ NonzeroWeightDecay /\ ret.status = "returned"
    /\ Len(ret.optimizer.param_groups[1]["params"]) >= 2
    /\ Len(ret.optimizer.param_groups[2]["params"]) >= 2
    /\ ret.optimizer.param_groups[1]["weight_decay"] = 1

\* C5: with weight_decay absent or exactly zero nothing is partitioned: the
\* optimizer has one group holding every parameter of the model, with the
\* optimizer settings, a given weight_decay included, passed through unchanged.
C5_SingleGroup ==
    (Called /\ ~NonzeroWeightDecay) =>
        /\ ret.status = "returned"
        /\ ~ret.partitioned
        /\ LET g == ret.optimizer.param_groups IN
           /\ Len(g) = 1
           /\ Range(g[1]["params"]) = AllParamPaths(call.model)
           /\ Len(g[1]["params"]) = Cardinality(AllParamPaths(call.model))
           /\ DOMAIN g[1] = DOMAIN call.opt_params \cup {"params"}
           /\ \A k \in DOMAIN call.opt_params : g[1][k] = call.opt_params[k]

\* C5 witness: weight_decay 0 is given, and the one group of a tree with
\* normalization weights and biases carries it
C5_Witness ==
    /\ Called /\ "weight_decay" \in DOMAIN call.opt_params
    /\ call.opt_params["weight_decay"] = 0
    /\ ret.status = "returned"
    /\ Len(ret.optimizer.param_groups) = 1
    /\ ret.optimizer.param_groups[1]["weight_decay"] = 0
    /\ \E m \in Range(call.model) : m.kind = "BatchNorm2d" /\ m.params = <<"weight", "bias">>

(***************************************************************************)
(* The finetuning driver: main and main_worker (finetune.py 41-182).       *)
(***************************************************************************)

\* the registries of lines 18-39, each with the names the configurations use
schedules == {"OneCycleLR"}
optimizers == {"AdamW"}
loss_names == {"PanopticLoss"}
datasets == {"SingleClassInstanceDataset"}
augmentations == {"Flip"}

\* epochs a configuration may ask for
MaxEpochs == 2

\* the largest save_freq of a configuration
MaxSaveFreq == 2

\* TRAIN.augmentations: each entry a dict with its 'aug' name and a parameter
AugLists ==
    {<<>>,
     <<[aug |-> "Flip", p |-> 1]>>,
     <<[aug |-> "Flip", p |-> 1], [aug |-> "CopyPaste", p |-> 1]>>,
     <<[aug |-> "bogus", p |-> 1]>>,
     <<[aug |-> "Flip", p |-> 1], [aug |-> "bogus", p |-> 1]>>}

\* TRAIN.schedule_params: without epochs, or with epochs and steps_per_epoch
ScheduleParams ==
    {[max_lr |-> 3]} \cup
    {[max_lr |-> 3, epochs |-> e, steps_per_epoch |-> 1] : e \in 0..MaxEpochs}

\* the TRAIN section without an epochs key
TrainSections ==
    [model_dir : {"models"},
     whole_pretraining : {"url"},
     lr_schedule : schedules \cup {"bogus"},
     optimizer : optimizers \cup {"bogus"},
     criterion : loss_names \cup {"bogus"},
     criterion_params : {<<>>},
     dataset_class : datasets \cup {"bogus"},
     dataset_params : {<<>>},
     train_dir : {"train"},
     additional_train_dirs : {None},
     finetune_layer : {"none", "all", "stage1", "stage2", "stage3", "stage4", "bogus"},
     augmentations : AugLists,
     optimizer_params : {[lr |-> 3], [lr |-> 3, weight_decay |-> 1]},
     schedule_params : ScheduleParams,
     batch_size : {2},
     workers : {1},
     amp : BOOLEAN,
     save_freq : 1..MaxSaveFreq]

\* the configuration of a TRAIN section t; epochs < 0 stands for no TRAIN.epochs
ConfigOf(t, epochs) ==
    [config_name |-> "cfg",
     DATASET |-> [norms |-> "norms", class_names |-> <<"mito">>],
     TRAIN |-> IF epochs < 0 THEN t ELSE DictSet(t, "epochs", epochs)]

\* configure_optimizer is not under test here
IdleOpt ==
    /\ call = [model |-> <<>>, opt_name |-> "", opt_params |-> <<>>]
    /\ ret = NotCalled

Init ==
    /\ IdleOpt
    /\ IdleWidget
    /\ pc = "main" /\ error = ""
    /\ \E t \in TrainSections, epochs \in -1..MaxEpochs : config = ConfigOf(t, epochs)
    /\ fs \in {[model_dir |-> d, checkpoint |-> None] : d \in BOOLEAN}
    /\ model = <<>> /\ requires_grad = <<>> /\ flags_loaded = <<>> /\ weights = 0 /\ num_trainable = 0
    /\ dataset_augs = <<>> /\ tfs = <<>>
    /\ train_dataset = None /\ train_loader = None /\ criterion = None
    /\ optimizer = None /\ scheduler = None /\ scaler = None
    /\ epoch = 0 /\ trained = <<>> /\ saves = <<>>

\* the run ends with exception e
Raise(e) == pc' = "error" /\ error' = e

\* the asserts of lines 47-49, the first of them left out
validated_without_schedule(cfg) ==
    /\ cfg.TRAIN.optimizer \in optimizers
    /\ cfg.TRAIN.criterion \in loss_names

\* the asserts of lines 47-49
validated(cfg) ==
    /\ cfg.TRAIN.lr_schedule \in schedules
    /\ cfg.TRAIN.optimizer \in optimizers
    /\ cfg.TRAIN.criterion \in loss_names

\* main, up to its call of main_worker (lines 41-51)
Main ==
    /\ pc = "main"
    /\ fs' = [fs EXCEPT !.model_dir = TRUE]
    /\ IF validated(config) THEN pc' = "load_model" /\ error' = error
       ELSE Raise("AssertionError")
    /\ UNCHANGED <<config, model, requires_grad, weights, num_trainable, dataset_augs,
                   tfs, train_dataset, train_loader, criterion, optimizer, scheduler,
                   scaler, epoch, trained, saves, optVars, widVars, flags_loaded>>

\* the pretrained model torch.hub.load_state_dict_from_url returns: an encoder
\* of a stem and four stages, and a head outside the encoder
PretrainedModel ==
    <<[mn |-> "", kind |-> "Module", params |-> <<>>],
      [mn |-> "encoder", kind |-> "Module", params |-> <<>>],
      [mn |-> "encoder.stem", kind |-> "Conv2d", params |-> <<"weight">>],
      [mn |-> "encoder.stage1", kind |-> "Conv2d", params |-> <<"weight">>],
      [mn |-> "encoder.stage1.bn", kind |-> "BatchNorm2d", params |-> <<"weight", "bias">>],
      [mn |-> "encoder.stage2", kind |-> "Conv2d", params |-> <<"weight">>],
      [mn |-> "encoder.stage3", kind |-> "Conv2d", params |-> <<"weight">>],
      [mn |-> "encoder.stage4", kind |-> "Conv2d", params |-> <<"weight">>],
      [mn |-> "semantic_head", kind |-> "Conv2d", params |-> <<"weight", "bias">>]>>

\* the requires_grad flags a loaded model may carry: all set, none set, mixed
LoadedFlags(tree) ==
    LET ps == parameters(tree) IN
    {[p \in Range(ps) |-> TRUE], [p \in Range(ps) |-> FALSE],
     [p \in Range(ps) |-> \E i \in 1..Len(ps) : ps[i] = p /\ i % 2 = 0],
     [p \in Range(ps) |-> \E i \in 1..Len(ps) : ps[i] = p /\ i % 2 = 1]}

\* torch.device("cuda:0" if torch.cuda.is_available() else "cpu"), on a host
\* without CUDA
device == "cpu"

\* lines 54-62: the device, the pretrained model, the dataset class
LoadModel ==
    /\ pc = "load_model"
    /\ config' = DictSet(config, "device", device)
    /\ model' = PretrainedModel
    /\ requires_grad' \in LoadedFlags(PretrainedModel)
    /\ flags_loaded' = requires_grad'
    /\ IF config.TRAIN.dataset_class \in datasets
       THEN pc' = "freeze" /\ error' = error
       ELSE Raise("KeyError")
    /\ UNCHANGED <<fs, weights, num_trainable, dataset_augs, tfs, train_dataset,
                   train_loader, criterion, optimizer, scheduler, scaler, epoch,
                   trained, saves, optVars, widVars>>

\* the loop of lines 66-68 with its test left out: every parameter is frozen
freeze_everything(flags) == [p \in DOMAIN flags |-> FALSE]

\* lines 66-68: start by freezing all encoder parameters
freeze_encoder(flags) ==
    [p \in DOMAIN flags |-> IF Contains("encoder", p) THEN FALSE ELSE flags[p]]

FreezeEncoder ==
    /\ pc = "freeze"
    /\ requires_grad' = freeze_encoder(requires_grad)
    /\ pc' = "finetune_layer"
    /\ UNCHANGED <<error, config, fs, model, weights, num_trainable, dataset_augs, tfs,
                   train_dataset, train_loader, criterion, optimizer, scheduler, scaler,
                   epoch, trained, saves, optVars, widVars, flags_loaded>>

valid_layers == <<"stage1", "stage2", "stage3", "stage4">>

\* valid_layers.index(finetune_layer)
index(names, x) == CHOOSE i \in 1..Len(names) : names[i] = x

\* the slice of line 83 taken one stage too late
layers_after(finetune_layer) ==
    SubSeq(valid_layers, index(valid_layers, finetune_layer) + 1, Len(valid_layers))

\* valid_layers[valid_layers.index(finetune_layer):]
layers_onward(finetune_layer) ==
    SubSeq(valid_layers, index(valid_layers, finetune_layer), Len(valid_layers))

\* lines 74-87 for a selector that passes the assert: the flags afterwards
unfreeze(flags, finetune_layer) ==
    IF finetune_layer = "none" THEN flags
    ELSE IF finetune_layer = "all"
    THEN [p \in DOMAIN flags |-> IF Contains("encoder", p) THEN TRUE ELSE flags[p]]
    ELSE [p \in DOMAIN flags |->
            IF \E layer_name \in Range(layers_onward(finetune_layer)) :
                    Contains("encoder." \o layer_name, p)
            THEN TRUE ELSE flags[p]]

\* lines 70-94: the freeze selector, the count of trainable parameters
ApplyFinetuneLayer ==
    /\ pc = "finetune_layer"
    /\ LET finetune_layer == config.TRAIN.finetune_layer IN
       IF finetune_layer \in {"none", "all"} \cup Range(valid_layers)
       THEN /\ requires_grad' = unfreeze(requires_grad, finetune_layer)
            /\ num_trainable' = Cardinality({p \in DOMAIN requires_grad : requires_grad'[p]})
            /\ pc' = "augmentations" /\ error' = error
       ELSE /\ Raise("AssertionError")
            /\ UNCHANGED <<requires_grad, num_trainable>>
    /\ UNCHANGED <<config, fs, model, weights, dataset_augs, tfs, train_dataset,
                   train_loader, criterion, optimizer, scheduler, scaler, epoch,
                   trained, saves, optVars, widVars, flags_loaded>>

RECURSIVE Join(_, _)
\* sep.join(names)
Join(names, sep) ==
    IF names = <<>> THEN ""
    ELSE IF Len(names) = 1 THEN names[1]
    ELSE names[1] \o sep \o Join(Tail(names), sep)

\* the first entry whose name is not an albumentations class, or one past the end
first_not_albumentations(augs) ==
    IF \E i \in 1..Len(augs) : augs[i].aug \notin augmentations
    THEN CHOOSE i \in 1..Len(augs) :
            /\ augs[i].aug \notin augmentations
            /\ \A j \in 1..(i - 1) : augs[j].aug \in augmentations
    ELSE Len(augs) + 1

\* lines 96-118: the loop over TRAIN.augmentations and the composed transform.
\* An unknown name fails the assert of line 102; CopyPaste passes it, is
\* appended and deleted, and then line 108 names a class finetune.py never
\* imports.
SetAugmentations ==
    /\ pc = "augmentations"
    /\ LET augs == config.TRAIN.augmentations
           stop == first_not_albumentations(augs)
           copy_paste == stop <= Len(augs) /\ augs[stop].aug = "CopyPaste"
           seen == IF copy_paste THEN stop ELSE stop - 1
           aug_string == [i \in 1..seen |-> augs[i].aug]
           built == [i \in 1..(stop - 1) |->
                        [cls |-> augs[i].aug, params |-> DictDel(augs[i], "aug")]]
           rest == [i \in 1..Len(augs) |-> IF i <= seen THEN DictDel(augs[i], "aug") ELSE augs[i]]
           train == [config.TRAIN EXCEPT !.augmentations = rest]
       IN
       /\ dataset_augs' = built
       /\ IF stop > Len(augs)
          THEN /\ config' = DictSet(DictSet(config, "TRAIN", train), "aug_string",
                                    Join(aug_string, ","))
               /\ tfs' = built \o <<[cls |-> "Normalize", params |-> config.DATASET.norms],
                                    [cls |-> "ToTensorV2", params |-> <<>>]>>
               /\ pc' = "data" /\ error' = error
          ELSE /\ config' = DictSet(DictSet(config, "TRAIN", train), "aug_string", aug_string)
               /\ tfs' = tfs
               /\ Raise(IF copy_paste THEN "NameError" ELSE "AssertionError")
    /\ UNCHANGED <<fs, model, requires_grad, weights, num_trainable, train_dataset,
                   train_loader, criterion, optimizer, scheduler, scaler, epoch,
                   trained, saves, optVars, widVars, flags_loaded>>

\* images under TRAIN.train_dir
TrainDirLen == 5

\* lines 120-134: the training dataset and its loader (drop_last=True)
BuildData ==
    /\ pc = "data"
    /\ train_dataset' = [kind |-> config.TRAIN.dataset_class, transforms |-> tfs,
                         dirs |-> <<config.TRAIN.train_dir>>, len |-> TrainDirLen]
    /\ train_loader' = [kind |-> "DataLoader", batch_size |-> config.TRAIN.batch_size,
                        num_workers |-> config.TRAIN.workers,
                        len |-> TrainDirLen \div config.TRAIN.batch_size]
    /\ pc' = "optimizer"
    /\ UNCHANGED <<error, config, fs, model, requires_grad, weights, num_trainable,
                   dataset_augs, tfs, criterion, optimizer, scheduler, scaler, epoch,
                   trained, saves, optVars, widVars, flags_loaded>>

\* lines 136-143: the criterion and the optimizer
BuildOptimizer ==
    /\ pc = "optimizer"
    /\ criterion' = [kind |-> config.TRAIN.criterion]
    /\ LET r == configure_optimizer(model, config.TRAIN.optimizer,
                                    config.TRAIN.optimizer_params) IN
       IF r.status = "returned"
       THEN /\ optimizer' = [kind |-> "Optimizer", cls |-> r.optimizer.cls,
                             param_groups |-> r.optimizer.param_groups, steps |-> 0]
            /\ pc' = "scheduler" /\ error' = error
       ELSE /\ optimizer' = optimizer
            /\ Raise(r.status)
    /\ UNCHANGED <<config, fs, model, requires_grad, weights, num_trainable,
                   dataset_augs, tfs, train_dataset, train_loader, scheduler, scaler,
                   epoch, trained, saves, optVars, widVars, flags_loaded>>

\* lines 145-165: the scheduler, the gradient scaler, the number of epochs
BuildScheduler ==
    /\ pc = "scheduler"
    /\ LET given == config.TRAIN.schedule_params
           schedule_params ==
               IF "steps_per_epoch" \in DOMAIN given
               THEN [given EXCEPT !["steps_per_epoch"] = train_loader.len]
               ELSE given
           train == [config.TRAIN EXCEPT !.schedule_params = schedule_params]
           started == DictSet(DictSet(config, "TRAIN", train), "start_epoch", 0)
       IN
       /\ scheduler' = [kind |-> config.TRAIN.lr_schedule, params |-> schedule_params,
                        steps |-> 0]
       /\ scaler' = IF config.TRAIN.amp THEN [kind |-> "GradScaler", steps |-> 0] ELSE None
       /\ IF "epochs" \in DOMAIN schedule_params \/ "epochs" \in DOMAIN config.TRAIN
          THEN LET epochs == IF "epochs" \in DOMAIN schedule_params
                             THEN schedule_params["epochs"]
                             ELSE config.TRAIN["epochs"]
               IN /\ config' = DictSet(started, "TRAIN", DictSet(train, "epochs", epochs))
                  /\ pc' = IF 0 < epochs THEN "train" ELSE "done"
                  /\ error' = error
          ELSE /\ config' = started
               /\ Raise("Exception")
    /\ epoch' = 0
    /\ UNCHANGED <<fs, model, requires_grad, weights, num_trainable, dataset_augs, tfs,
                   train_dataset, train_loader, criterion, optimizer, trained, saves,
                   optVars, widVars, flags_loaded>>

\* lines 167-171 and train(): one epoch over the loader's batches; every batch
\* steps the optimizer (through the scaler when there is one) and the scheduler
TrainEpoch ==
    /\ pc = "train"
    /\ trained' = Append(trained, epoch)
    /\ weights' = weights + 1
    /\ optimizer' = [optimizer EXCEPT !.steps = @ + train_loader.len]
    /\ scheduler' = [scheduler EXCEPT !.steps = @ + train_loader.len]
    /\ scaler' = IF scaler = None THEN None
                 ELSE [scaler EXCEPT !.steps = @ + train_loader.len]
    /\ pc' = "save"
    /\ UNCHANGED <<error, config, fs, model, requires_grad, num_trainable, dataset_augs,
                   tfs, train_dataset, train_loader, criterion, epoch, saves, optVars, widVars, flags_loaded>>

\* x.state_dict() of an object; None has no such attribute
has_state_dict(x) == x # None

\* lines 173-182 and the loop's step: the checkpoint when one is due
SaveCheckpoint ==
    /\ pc = "save"
    /\ LET save_now == (epoch + 1) % config.TRAIN.save_freq = 0
           more == epoch + 1 < config.TRAIN["epochs"]
       IN
       IF save_now /\ ~has_state_dict(scaler)
       THEN /\ Raise("AttributeError")
            /\ UNCHANGED <<fs, saves, epoch>>
       ELSE /\ IF save_now
               THEN /\ fs' = [fs EXCEPT !.checkpoint =
                                [kind |-> "bundle", epoch |-> epoch + 1,
                                 state_dict |-> weights, optimizer |-> optimizer.steps,
                                 scheduler |-> scheduler.steps, scaler |-> scaler.steps,
                                 norms |-> config.DATASET.norms]]
                    /\ saves' = Append(saves, epoch + 1)
               ELSE UNCHANGED <<fs, saves>>
            /\ epoch' = IF more THEN epoch + 1 ELSE epoch
            /\ pc' = IF more THEN "train" ELSE "done"
            /\ error' = error
    /\ UNCHANGED <<config, model, requires_grad, weights, num_trainable, dataset_augs,
                   tfs, train_dataset, train_loader, criterion, optimizer, scheduler,
                   scaler, trained, optVars, widVars, flags_loaded>>

Next ==
    \/ Main
    \/ LoadModel
    \/ FreezeEncoder
    \/ ApplyFinetuneLayer
    \/ SetAugmentations
    \/ BuildData
    \/ BuildOptimizer
    \/ BuildScheduler
    \/ TrainEpoch
    \/ SaveCheckpoint

Spec == Init /\ [][Next]_vars

(***************************************************************************)
(* Properties of the driver, checked under Spec.                           *)
(***************************************************************************)

\* main_worker has loaded the pretrained model (lines 54-59 have run)
ModelLoaded == "device" \in DOMAIN config

\* the freeze policy of lines 64-87 has run to its end
PolicyApplied ==
    \/ pc \in {"augmentations", "data", "optimizer", "scheduler", "train", "save", "done"}
    \/ pc = "error" /\ "aug_string" \in DOMAIN config

\* the stage names, shallow to deep
StageOrder == <<"stage1", "stage2", "stage3", "stage4">>

\* parameter p lies under the encoder's stage of that name
UnderStage(p, stage) ==
    LET prefix == "encoder." \o stage \o "." IN
    Len(p) > Len(prefix) /\ SubSeq(p, 1, Len(prefix)) = prefix

\* parameter p belongs to the encoder: its path carries the encoder marker
IsEncoderParam(p) == \E i \in 1..(Len(p) - 6) : SubSeq(p, i, i + 6) = "encoder"

\* C6: for a freeze selector equal to a stage S, after the freeze policy every
\* encoder parameter under S or a deeper stage is trainable and every encoder
\* parameter under an earlier stage is frozen, whatever the flags were before.
C6_StageOnward ==
    \A s \in 1..4 :
        (PolicyApplied /\ config.TRAIN.finetune_layer = StageOrder[s]) =>
            \A p \in DOMAIN requires_grad : \A k \in 1..4 :
                UnderStage(p, StageOrder[k]) => (requires_grad[p] <=> k >= s)

\* C6 witness: with selector stage3 a stage-1 parameter that came trainable is
\* frozen and a stage-4 parameter that came frozen is trainable
C6_Witness ==
    /\ PolicyApplied /\ config.TRAIN.finetune_layer = "stage3"
    /\ flags_loaded["encoder.stage1.weight"] /\ ~requires_grad["encoder.stage1.weight"]
    /\ ~flags_loaded["encoder.stage4.weight"] /\ requires_grad["encoder.stage4.weight"]
    /\ ~requires_grad["encoder.stage2.weight"] /\ requires_grad["encoder.stage3.weight"]

\* C7: for selector none, after the freeze policy every encoder parameter is
\* frozen and every non-encoder parameter has the flag it was loaded with.
C7_NoneFreezesEncoderOnly ==
    (PolicyApplied /\ config.TRAIN.finetune_layer = "none") =>
        \A p \in DOMAIN requires_grad :
            IF IsEncoderParam(p) THEN ~requires_grad[p]
            ELSE requires_grad[p] = flags_loaded[p]

\* C7 witness: selector none, encoder parameters that came trainable are
\* frozen, and of the head's parameters one is still trainable, one still frozen
C7_Witness ==
    /\ PolicyApplied /\ config.TRAIN.finetune_layer = "none"
    /\ flags_loaded["encoder.stage1.weight"] /\ ~requires_grad["encoder.stage1.weight"]
    /\ requires_grad["semantic_head.weight"] /\ ~requires_grad["semantic_head.bias"]

\* the schedule, optimizer or criterion name is not recognized
BadTrainName ==
    \/ config.TRAIN.lr_schedule \notin schedules
    \/ config.TRAIN.optimizer \notin optimizers
    \/ config.TRAIN.criterion \notin loss_names

\* the freeze-stage name is not recognized
BadFreezeStage ==
    config.TRAIN.finetune_layer \notin {"none", "all", "stage1", "stage2", "stage3", "stage4"}

\* an augmentation name is not recognized (the loop deletes the names it accepts)
BadAugmentation ==
    \E i \in 1..Len(config.TRAIN.augmentations) :
        /\ "aug" \in DOMAIN config.TRAIN.augmentations[i]
        /\ config.TRAIN.augmentations[i].aug \notin augmentations \cup {"CopyPaste"}

\* no flag differs from the one the model was loaded with
FlagsUntouched == requires_grad = flags_loaded

\* neither a dataset nor a loader nor an optimizer exists
NothingBuilt == train_dataset = None /\ train_loader = None /\ optimizer = None

\* C8 as stated: with an unrecognized schedule, optimizer, criterion,
\* augmentation or freeze-stage name the run ends in a configuration error
\* raised before the pretrained model is loaded, before any trainable flag is
\* changed and before any dataset, loader or optimizer is built.
C8_FailsBeforeAnyResource ==
    (BadTrainName \/ BadFreezeStage \/ BadAugmentation) =>
        /\ pc # "done"
        /\ ~ModelLoaded /\ model = <<>> /\ FlagsUntouched /\ NothingBuilt

\* C8 amended: an unrecognized schedule, optimizer or criterion name fails
\* main's assertion before the model is loaded or any flag changed; with an
\* unrecognized freeze-stage or augmentation name the run also ends in an
\* error before any dataset, loader or optimizer is built, but only after the
\* model has been loaded and the encoder's flags have been set frozen.
C8_FailsBeforeTrainingData ==
    /\ BadTrainName =>
        /\ pc \in {"main", "error"}
        /\ pc = "error" => error = "AssertionError"
        /\ ~ModelLoaded /\ model = <<>> /\ FlagsUntouched /\ NothingBuilt
    /\ (BadFreezeStage \/ BadAugmentation) =>
        /\ pc \in {"main", "load_model", "freeze", "finetune_layer", "augmentations", "error"}
        /\ NothingBuilt
        /\ (pc = "error" /\ ~BadTrainName /\ error = "AssertionError") =>
            /\ ModelLoaded /\ model # <<>>
            /\ \A p \in DOMAIN requires_grad :
                    IsEncoderParam(p) /\ (BadFreezeStage \/ config.TRAIN.finetune_layer = "none")
                        => ~requires_grad[p]

\* C8 witness: the run has ended on the freeze-stage assertion with the model
\* loaded and an encoder flag changed from what it was loaded with
C8_Witness ==
    /\ pc = "error" /\ error = "AssertionError"
    /\ BadFreezeStage /\ ~BadTrainName
    /\ ModelLoaded /\ model # <<>>
    /\ flags_loaded["encoder.stage1.weight"] /\ ~requires_grad["encoder.stage1.weight"]
    /\ NothingBuilt

\* every name of the configuration is recognized, its augmentations are
\* albumentations classes, and an epoch count is given
ValidConfig ==
    /\ ~BadTrainName /\ ~BadFreezeStage /\ ~BadAugmentation
    /\ config.TRAIN.dataset_class \in datasets
    /\ \A i \in 1..Len(config.TRAIN.augmentations) :
            "aug" \in DOMAIN config.TRAIN.augmentations[i] =>
                config.TRAIN.augmentations[i].aug # "CopyPaste"
    /\ error # "NameError"
    /\ "epochs" \in DOMAIN config.TRAIN \/ "epochs" \in DOMAIN config.TRAIN.schedule_params

\* C9: for every valid configuration, amp true or false, the driver trains
\* epochs 0..epochs-1 in order and, after each epoch e with (e + 1) a multiple
\* of save_freq and before the next epoch starts, writes a checkpoint bundle
\* of epoch number e + 1 with the model, optimizer, scheduler and scaler state
\* and the norms; it writes none after any other epoch.
C9_CheckpointEverySaveFreq ==
    ValidConfig =>
        /\ pc # "error"
        /\ trained = [i \in 1..Len(trained) |-> i - 1]
        /\ pc = "done" => Len(trained) = config.TRAIN["epochs"]
        /\ pc \in {"train", "done"} =>
            /\ saves = [k \in 1..(Len(trained) \div config.TRAIN.save_freq) |->
                            k * config.TRAIN.save_freq]
            /\ saves # <<>> =>
                /\ fs.checkpoint.epoch = saves[Len(saves)]
                /\ DOMAIN fs.checkpoint = {"kind", "epoch", "state_dict", "optimizer",
                                           "scheduler", "scaler", "norms"}

(***************************************************************************)
(* The parameter-testing widget (_slice_inference.py 20-152).              *)
(***************************************************************************)

\* 'Test Parameters' presses in a run
MaxClicks == 2

\* threads the pool of the host may have
MaxThreads == 2

\* the models get_configs() lists
model_configs == {"MitoNet", "MitoNet_mini"}

\* load_config(model_configs[name]): the configuration of that model
load_config(name) == [model |-> name]

\* the text of the 'Max objects per class' line edit
ObjectTexts == {"20000", "abc"}

\* int(text) succeeds
is_int(text) == text = "20000"

\* the image layer chosen in the widget: none, or a 3D image
ImageLayers == {"None", "Image"}

InitWidget ==
    /\ IdleOpt
    /\ IdleDriver
    /\ widget = <<>> /\ engines = <<>> /\ workers = <<>> /\ layers = <<>>
    /\ clicks = 0
    /\ press = None
    /\ maxThreadCount \in 1..MaxThreads

\* the test of line 82 with the comparison of use_gpu left out
needs_new_engine_ignoring_gpu(w, model_config, use_gpu) ==
    \/ "engine" \notin DOMAIN w
    \/ w["last_config"] # model_config

\* line 82, read after lines 76-80 have set the attributes that were missing
needs_new_engine(w, model_config, use_gpu) ==
    \/ "engine" \notin DOMAIN w
    \/ w["last_config"] # model_config
    \/ use_gpu # w["using_gpu"]

\* the widget function, lines 72-150, for one press of 'Test Parameters'
TestParameters ==
    /\ clicks < MaxClicks
    /\ clicks' = clicks + 1
    /\ \E name \in model_configs, use_gpu \in BOOLEAN, downsampling \in {1, 2},
          text \in ObjectTexts, image_layer \in ImageLayers, loads \in BOOLEAN :
        LET model_config == load_config(name)
            w1 == IF "last_config" \in DOMAIN widget THEN widget
                  ELSE DictSet(widget, "last_config", model_config)
            w2 == IF "using_gpu" \in DOMAIN w1 THEN w1
                  ELSE DictSet(w1, "using_gpu", use_gpu)
            rebuild == needs_new_engine(w2, model_config, use_gpu)
            new == [config |-> model_config, use_gpu |-> use_gpu,
                    inference_scale |-> downsampling]
            w3 == IF rebuild
                  THEN DictSet(DictSet(DictSet(w2, "engine", Len(engines) + 1),
                                       "last_config", model_config), "using_gpu", use_gpu)
                  ELSE w2
            outcome == IF ~is_int(text) THEN "ValueError"
                       ELSE IF rebuild /\ ~loads THEN "Exception"
                       ELSE IF image_layer = "None" THEN "AttributeError"
                       ELSE "started"
        IN
        /\ press' = [model_config |-> model_config, use_gpu |-> use_gpu,
                     downsampling |-> downsampling, outcome |-> outcome]
        /\ CASE outcome = "ValueError" ->
                  \* line 74 raises
                  UNCHANGED <<widget, engines, workers>>
             [] outcome = "Exception" ->
                  \* TestEngine(...) of line 83 raises: the model cannot be loaded;
                  \* lines 76-80 have run, lines 94-95 have not
                  /\ widget' = w2
                  /\ UNCHANGED <<engines, workers>>
             [] OTHER ->
                  /\ widget' = w3
                  /\ engines' = IF rebuild THEN Append(engines, new)
                                ELSE [engines EXCEPT ![w2["engine"]] =
                                        [@ EXCEPT !.inference_scale = downsampling]]
                  /\ IF outcome = "AttributeError"
                     THEN \* line 114 raises
                          workers' = workers
                     ELSE workers' = Append(workers,
                                            [engine |-> w3["engine"], state |-> "started"])
    /\ UNCHANGED <<layers, maxThreadCount, optVars, drvVars>>

Running == {i \in 1..Len(workers) : workers[i].state = "running"}

\* the pool gives a started worker a thread: test_model enters engine.infer
RunWorker ==
    /\ Cardinality(Running) < maxThreadCount
    /\ \E i \in 1..Len(workers) :
        /\ workers[i].state = "started"
        /\ workers' = [workers EXCEPT ![i].state = "running"]
    /\ UNCHANGED <<widget, engines, layers, clicks, press, maxThreadCount, optVars, drvVars>>

\* test_model returns (lines 42-44): the returned signal is emitted
ReturnWorker ==
    /\ \E i \in 1..Len(workers) :
        /\ workers[i].state = "running"
        /\ workers' = [workers EXCEPT ![i].state = "returned"]
    /\ UNCHANGED <<widget, engines, layers, clicks, press, maxThreadCount, optVars, drvVars>>

\* _show_test_result (lines 131-141), on the UI thread
ShowTestResult ==
    /\ \E i \in 1..Len(workers) :
        /\ workers[i].state = "returned"
        /\ workers' = [workers EXCEPT ![i].state = "shown"]
        /\ layers' = Append(layers, [name |-> "Test Seg"])
    /\ UNCHANGED <<widget, engines, clicks, press, maxThreadCount, optVars, drvVars>>

NextWidget == TestParameters \/ RunWorker \/ ReturnWorker \/ ShowTestResult

SpecWidget == InitWidget /\ [][NextWidget]_vars

\* C10: at most one test inference is in flight on the shared engine at any
\* time: a press while a worker is still running starts no second inference
\* running concurrently on the same engine.
C10_OneInferencePerEngine ==
    \A i, j \in Running : workers[i].engine = workers[j].engine => i = j

\* the step is a press of 'Test Parameters'
Pressed == clicks' = clicks + 1

\* the press got through the engine step, lines 82-107
PastEngineStep == press'.outcome \in {"AttributeError", "started"}

HasEngine == "engine" \in DOMAIN widget

\* before the press: no engine yet, or the current engine was constructed with
\* another model config or use_gpu than the press asks for
MustConstruct ==
    \/ ~HasEngine
    \/ engines[widget["engine"]].config # press'.model_config
    \/ engines[widget["engine"]].use_gpu # press'.use_gpu

\* a new engine object, built from the arguments of the press, is the current one
Constructed ==
    /\ engines' = Append(engines, [config |-> press'.model_config,
                                   use_gpu |-> press'.use_gpu,
                                   inference_scale |-> press'.downsampling])
    /\ widget'["engine"] = Len(engines')

\* the current engine object is kept; update_params has set its parameters and
\* nothing else of it, and no other engine is touched
KeptAndUpdated ==
    /\ widget'["engine"] = widget["engine"]
    /\ engines' = [engines EXCEPT ![widget["engine"]] =
                      [@ EXCEPT !.inference_scale = press'.downsampling]]

\* the cache names the values the current engine was constructed with
CacheMatchesEngine ==
    /\ widget["last_config"] = engines[widget["engine"]].config
    /\ widget["using_gpu"] = engines[widget["engine"]].use_gpu

\* C11: a press that gets through the engine step constructs a new engine
\* exactly when no engine exists yet or the model config or use_gpu it asks for
\* differs from what the current engine was constructed with, and otherwise
\* keeps the engine object and only calls update_params on it; a press that
\* fails earlier constructs nothing and leaves the current engine in place;
\* after a press that completes, last_config and using_gpu equal the values the
\* current engine was constructed with.
C11_EngineRebuiltOnlyOnChange ==
    [][Pressed =>
        /\ PastEngineStep =>
            IF MustConstruct THEN Constructed ELSE KeptAndUpdated
        /\ ~PastEngineStep =>
            /\ engines' = engines
            /\ HasEngine' = HasEngine
            /\ HasEngine => widget'["engine"] = widget["engine"]
        /\ press'.outcome = "started" => CacheMatchesEngine'
      ]_vars

\* two presses have completed and the second kept the engine the first built:
\* both workers were given the one engine there is
C11_Witness ==
    /\ clicks = 2
    /\ press.outcome = "started"
    /\ Len(workers) = 2
    /\ Len(engines) = 1
    /\ workers[1].engine = workers[2].engine

====
